---- MODULE Spec2Model ----
(***************************************************************************)
(* PPClipper (src/app.py): a Flask application that looks for a live       *)
(* broadcast on the registered YouTube channels, composes a time-stamped   *)
(* link 35 seconds before "now", posts it to a Discord webhook, stores it  *)
(* in the clips table and serves the table page by page; an admin API,     *)
(* guarded by a shared secret, edits the channels table.                   *)
(*                                                                         *)
(* One action per request handler.  Whatever a handler receives from       *)
(* outside (query arguments, headers, the answers of the YouTube API, of   *)
(* the webhook and of SQLite, the wall clock) is drawn with \E.  `last'    *)
(* records the response of the latest request together with the outbound   *)
(* calls the handler made while serving it.                                *)
(***************************************************************************)
EXTENDS Integers, Sequences, FiniteSets, TLC

VARIABLES
    YOUTUBE_API_KEY,      \* os.getenv("YT_API_KEY")
    DISCORD_WEBHOOK_URL,  \* os.getenv("DISCORD_WEBHOOK")
    ADMIN_API_KEY,        \* os.getenv("ADMIN_API_KEY")
    channels,             \* table channels, rows in the order a SELECT without
                          \* ORDER BY returns them (rowid order or the order of the
                          \* UNIQUE index, as SQLite plans the scan)
    channelSeq,           \* AUTOINCREMENT counter of table channels
    clips,                \* table clips, rows in rowid order
    last                  \* response and outbound calls of the latest request

vars == <<YOUTUBE_API_KEY, DISCORD_WEBHOOK_URL, ADMIN_API_KEY,
          channels, channelSeq, clips, last>>

env == <<YOUTUBE_API_KEY, DISCORD_WEBHOOK_URL, ADMIN_API_KEY>>

-----------------------------------------------------------------------------
(* Bounds *)

\* largest rowid the channels table hands out
MaxChannelSeq == 3

\* largest number of rows in the clips table
MaxClips == 2

\* clock ticks per second (the resolution of the modelled clock)
TicksPerSec == 2

\* instants range over 0..MaxTick ticks around the stream start
MaxTick == 4

-----------------------------------------------------------------------------
(* Python values *)

\* Python's None (an absent header, an unset environment variable, SQL NULL)
None == "<None>"

\* a JSON value that is not a string (a number, a list)
NonString == "<int>"

\* truthiness of a str-or-None value: `not x' holds of None and of ""
Falsy(x) == x = None \/ x = ""

\* the permutations of 1..n, as functions
Perms(n) == { p \in [1..n -> 1..n] : \A i, j \in 1..n : i # j => p[i] # p[j] }

\* sequence s rearranged by permutation p
Permuted(s, p) == [i \in 1..Len(s) |-> s[p[i]]]

\* sequence s with x put at position k
InsertAt(s, k, x) ==
    [i \in 1..(Len(s) + 1) |-> IF i < k THEN s[i] ELSE IF i = k THEN x ELSE s[i - 1]]

\* sequence s without position k
RemoveAt(s, k) == [i \in 1..(Len(s) - 1) |-> IF i < k THEN s[i] ELSE s[i + 1]]

\* code point of a character of the modelled alphabet
Ord(c) ==
    CASE c = " " -> 32
      [] c = "%" -> 37
      [] c = "_" -> 95
      [] c = "A" -> 65
      [] c = "B" -> 66
      [] c = "C" -> 67
      [] c = "a" -> 97
      [] c = "b" -> 98
      [] c = "c" -> 99
      [] c = "i" -> 105
      [] c = "l" -> 108
      [] c = "p" -> 112
      [] c = "y" -> 121
      [] OTHER -> 63

\* lexicographic "less than" on sequences of integers; a proper prefix is less
RECURSIVE SeqLess(_, _)
SeqLess(a, b) ==
    IF b = <<>> THEN FALSE
    ELSE IF a = <<>> THEN TRUE
    ELSE IF a[1] # b[1] THEN a[1] < b[1]
    ELSE SeqLess(Tail(a), Tail(b))

\* a text (sequence of characters) as its sequence of code points
Codes(t) == [i \in 1..Len(t) |-> Ord(t[i])]

-----------------------------------------------------------------------------
(* Database: init_db *)

DefaultChannel == "UC4rnJFlsO1TC9FJMTWMPNdw"
DefaultName == <<"C">>

\* the channel_id values of the rows of a channels table
ChannelIdsOf(rows) == { rows[i].channel_id : i \in 1..Len(rows) }

\* a channels table without the UNIQUE constraint
InsertNeverViolates(rows, channel_id) == FALSE

\* INSERT INTO channels: the UNIQUE constraint on channel_id decides
InsertViolatesUnique(rows, channel_id) == channel_id \in ChannelIdsOf(rows)

\* the row an INSERT appends: AUTOINCREMENT id, never reused
NewChannelRow(channel_id, name) ==
    [id |-> channelSeq + 1, channel_id |-> channel_id, name |-> name]

\* init_db at start-up over the existing database file
InitDb ==
    /\ channelSeq < MaxChannelSeq
    /\ Len(channels) = 0
    /\ channels' = <<NewChannelRow(DefaultChannel, <<DefaultName>>)>>
    /\ channelSeq' = channelSeq + 1
    /\ last' = [op |-> "init_db"]
    /\ UNCHANGED <<env, clips>>

Init ==
    /\ YOUTUBE_API_KEY \in {None, "yk"}
    /\ DISCORD_WEBHOOK_URL \in {None, "url"}
    /\ ADMIN_API_KEY \in {None, "", "s1"}
    /\ channels = <<[id |-> 1, channel_id |-> DefaultChannel, name |-> <<DefaultName>>]>>
    /\ channelSeq = 1
    /\ clips = <<>>
    /\ last = [op |-> "init_db"]

-----------------------------------------------------------------------------
(* Admin API *)

\* the x-api-key headers a caller may present
Headers == {None, "", "s1", "bad"}

\* the response of the decorator when it does not call the handler
AdminReject(op, api_key, status, error) ==
    /\ last' = [op |-> op, api_key |-> api_key, status |-> status,
                error |-> error, db |-> FALSE, before |-> channels]
    /\ UNCHANGED <<env, channels, channelSeq, clips>>

\* a decorator that compares the header first and never looks whether a key is set
AdminHeaderOnly(op, api_key, f) ==
    IF api_key = ADMIN_API_KEY
    THEN f
    ELSE AdminReject(op, api_key, 403, "unauthorized")

\* @admin_required: f is the decorated handler
admin_required(op, api_key, f) ==
    IF Falsy(ADMIN_API_KEY)
    THEN AdminReject(op, api_key, 500, "admin_key_not_set")
    ELSE IF api_key = ADMIN_API_KEY
         THEN f
         ELSE AdminReject(op, api_key, 403, "unauthorized")

\* ORDER BY name: NULL first, then by text; ties in any order
NameKey(row) == IF row.name = <<>> THEN <<>> ELSE <<0>> \o Codes(row.name[1])

OrderedByName(rows) ==
    \A i \in 1..(Len(rows) - 1) : ~SeqLess(NameKey(rows[i + 1]), NameKey(rows[i]))

\* GET /admin/channels
list_channels(api_key) ==
    \E db \in {"ok", "error"} :
        IF db = "error"
        THEN /\ last' = [op |-> "list_channels", api_key |-> api_key, status |-> 500,
                         error |-> "db", db |-> TRUE, before |-> channels]
             /\ UNCHANGED <<env, channels, channelSeq, clips>>
        ELSE \E p \in Perms(Len(channels)) :
                /\ OrderedByName(Permuted(channels, p))
                /\ last' = [op |-> "list_channels", api_key |-> api_key, status |-> 200,
                            error |-> None, db |-> TRUE, before |-> channels,
                            body |-> Permuted(channels, p)]
                /\ UNCHANGED <<env, channels, channelSeq, clips>>

list_channels_api(headers) ==
    \E api_key \in headers :
        admin_required("list_channels", api_key, list_channels(api_key))

\* the response of add_channel_api when it leaves the table as it is
AddChannelFails(api_key, channel_id, status, error, db) ==
    /\ last' = [op |-> "add_channel", api_key |-> api_key, status |-> status,
                error |-> error, db |-> db, channel_id |-> channel_id,
                before |-> channels]
    /\ UNCHANGED <<env, channels, channelSeq, clips>>

\* where a scan of the table meets a new row: after the others when it goes by
\* rowid, anywhere when it goes by the index on channel_id
ScanPlaces(n, byIndex) == IF byIndex THEN 1..(n + 1) ELSE {n + 1}

\* POST /admin/channels with JSON body data (<<>>: no usable body)
add_channel(api_key, data, byIndex) ==
    IF data = <<>>
    THEN AddChannelFails(api_key, None, 400, "no_json", FALSE)
    ELSE LET channel_id == data[1].channel_id
             name == data[1].name
         IN  IF Falsy(channel_id)
             THEN AddChannelFails(api_key, channel_id, 400, "channel_id_required", FALSE)
             ELSE IF channel_id = NonString
             THEN \* channel_id.startswith raises AttributeError: unhandled
                  AddChannelFails(api_key, channel_id, 500, "exception", FALSE)
             ELSE \E db \in {"ok", "error"} :
                    IF db = "error"
                    THEN AddChannelFails(api_key, channel_id, 500, "db", TRUE)
                    ELSE IF InsertViolatesUnique(channels, channel_id)
                    THEN AddChannelFails(api_key, channel_id, 409, "exists", TRUE)
                    ELSE /\ channelSeq < MaxChannelSeq
                         /\ \E k \in ScanPlaces(Len(channels), byIndex) :
                                channels' = InsertAt(channels, k,
                                                     NewChannelRow(channel_id, name))
                         /\ channelSeq' = channelSeq + 1
                         /\ last' = [op |-> "add_channel", api_key |-> api_key,
                                     status |-> 201, error |-> None, db |-> TRUE,
                                     channel_id |-> channel_id, before |-> channels,
                                     id |-> channelSeq + 1]
                         /\ UNCHANGED <<env, clips>>

add_channel_api(headers, bodies, byIndex) ==
    \E api_key \in headers, data \in bodies :
        admin_required("add_channel", api_key, add_channel(api_key, data, byIndex))

\* DELETE /admin/channels/<channel_db_id>
remove_channel(api_key, channel_db_id) ==
    \E db \in {"ok", "error"} :
        LET hit == { i \in 1..Len(channels) : channels[i].id = channel_db_id }
        IN  IF db = "error"
            THEN /\ last' = [op |-> "remove_channel", api_key |-> api_key,
                             status |-> 500, error |-> "db", db |-> TRUE,
                             before |-> channels]
                 /\ UNCHANGED <<env, channels, channelSeq, clips>>
            ELSE IF hit = {}
            THEN /\ last' = [op |-> "remove_channel", api_key |-> api_key,
                             status |-> 404, error |-> "not_found", db |-> TRUE,
                             before |-> channels]
                 /\ UNCHANGED <<env, channels, channelSeq, clips>>
            ELSE /\ channels' = RemoveAt(channels, CHOOSE i \in hit : TRUE)
                 /\ last' = [op |-> "remove_channel", api_key |-> api_key,
                             status |-> 200, error |-> None, db |-> TRUE,
                             before |-> channels]
                 /\ UNCHANGED <<env, channelSeq, clips>>

remove_channel_api(headers) ==
    \E api_key \in headers, channel_db_id \in 1..MaxChannelSeq :
        admin_required("remove_channel", api_key, remove_channel(api_key, channel_db_id))

\* the request bodies of POST /admin/channels
ChannelIds == {DefaultChannel, "UCb", "UCc"}
ChannelNames == {<<>>, <<<<"A">>>>, <<<<"a">>>>}
Bodies(ids, names) ==
    {<<>>} \cup { <<[channel_id |-> c, name |-> n]>> : c \in ids, n \in names }

-----------------------------------------------------------------------------
(* Texts: query arguments, titles *)

\* an optional value: <<>> when absent, <<v>> when present
ArgGet(arg, default) == IF arg = <<>> THEN default ELSE arg[1]

\* str.strip(): leading and trailing blanks removed
RECURSIVE LStrip(_)
LStrip(t) == IF t # <<>> /\ t[1] = " " THEN LStrip(Tail(t)) ELSE t

RECURSIVE RStrip(_)
RStrip(t) ==
    IF t # <<>> /\ t[Len(t)] = " " THEN RStrip(SubSeq(t, 1, Len(t) - 1)) ELSE t

Strip(t) == RStrip(LStrip(t))

Someone == <<"s", "o", "m", "e", "o", "n", "e">>
ClipBy == <<"C", "l", "i", "p", " ", "b", "y", " ">>

-----------------------------------------------------------------------------
(* YouTube API helpers *)

\* what one search request (requests.get, raise_for_status, json, items) does:
\*   "RequestException"  network error, timeout, non-2xx status
\*   "Exception"         a body that is no JSON object, an item without id.videoId
\*   "empty"             items == []
\*   any other value     items[0]['id']['videoId']
SearchRaises(r) == r \in {"RequestException", "Exception"}

\* the loop body's `if items: return video_id'
ScanStopsAt(r) == r # "empty"

\* a loop that remembers a hit and goes on, returning the last hit
RECURSIVE ScanKeepsLast(_, _, _)
ScanKeepsLast(rows, api, queried) ==
    IF rows = <<>>
    THEN [video |-> None, queried |-> queried]
    ELSE LET channel_id == Head(rows)
             r == api[channel_id]
             q == Append(queried, channel_id)
             rest == ScanKeepsLast(Tail(rows), api, q)
         IN  IF SearchRaises(r) THEN [video |-> None, queried |-> q]
             ELSE IF ScanStopsAt(r) /\ rest.video = None
             THEN [video |-> r, queried |-> rest.queried]
             ELSE rest

\* the for loop of get_active_live_video_id over the fetched rows; an exception
\* leaves the loop for the handlers of the enclosing try, which return None
RECURSIVE ScanChannels(_, _, _)
ScanChannels(rows, api, queried) ==
    IF rows = <<>>
    THEN [video |-> None, queried |-> queried]
    ELSE LET channel_id == Head(rows)
             r == api[channel_id]
             q == Append(queried, channel_id)
         IN  IF SearchRaises(r) THEN [video |-> None, queried |-> q]
             ELSE IF ScanStopsAt(r) THEN [video |-> r, queried |-> q]
             ELSE ScanChannels(Tail(rows), api, q)

\* get_active_live_video_id: fetched is <<>> when the SELECT raised, else <<rows>>
get_active_live_video_id(fetched, api) ==
    IF Falsy(YOUTUBE_API_KEY) THEN [video |-> None, queried |-> <<>>]
    ELSE IF fetched = <<>> THEN [video |-> None, queried |-> <<>>]
    ELSE IF fetched[1] = <<>> THEN [video |-> None, queried |-> <<>>]
    ELSE ScanChannels(fetched[1], api, <<>>)

\* a resolver that falls back to instant 0 when actualStartTime is missing
StartTimeWithFallback(video_id, detail) ==
    IF Falsy(YOUTUBE_API_KEY) THEN <<>>
    ELSE IF Falsy(video_id) THEN <<>>
    ELSE IF detail.kind = "ok" THEN <<detail.t>>
    ELSE IF detail.kind = "no_start" THEN <<0>>
    ELSE <<>>

\* get_stream_start_time: detail is what the videos request does:
\*   kind "RequestException", "Exception" (also an unparsable actualStartTime),
\*   "no_items", "no_start" (no liveStreamingDetails.actualStartTime),
\*   "ok" with the instant t that fromisoformat yields (taken as UTC by
\*   create_clip when it carries no offset, lines 190-191).
\* Returns <<>> for None.
get_stream_start_time(video_id, detail) ==
    IF Falsy(YOUTUBE_API_KEY) THEN <<>>
    ELSE IF Falsy(video_id) THEN <<>>
    ELSE IF detail.kind = "ok" THEN <<detail.t>>
    ELSE <<>>

-----------------------------------------------------------------------------
(* GET /clip *)

\* timedelta(seconds=35)
ClipLookback == 35

\* int(x) of the quotient n / d, d > 0: truncation towards zero
IntTrunc(n, d) == IF n >= 0 THEN n \div d ELSE -((-n) \div d)

\* the offset without the clamp at the stream start
SecondsUnclamped(now_utc, stream_start_utc) ==
    IntTrunc(now_utc - ClipLookback * TicksPerSec - stream_start_utc, TicksPerSec)

\* lines 196-202: instants in ticks, the result in whole seconds
seconds_since_start(now_utc, stream_start_utc) ==
    LET clip_time_utc == now_utc - ClipLookback * TicksPerSec
    IN  IF clip_time_utc < stream_start_utc
        THEN 0
        ELSE IntTrunc(clip_time_utc - stream_start_utc, TicksPerSec)

\* f"https://www.youtube.com/watch?v={video_id}&t={seconds_since_start}s"
ClipUrl(video_id, seconds) == [v |-> video_id, t |-> seconds]

\* f"https://i.ytimg.com/vi/{video_id}/mqdefault.jpg"
ThumbnailUrl(video_id) == [v |-> video_id]

\* datetime.isoformat() of an aware UTC instant, as the fields that order the
\* text: <<seconds>> when the microsecond is 0 ("...SS+00:00"), else
\* <<seconds, fraction>> ("...SS.ffffff+00:00"); '+' sorts before '.'
IsoFormat(t) ==
    IF t % TicksPerSec = 0 THEN <<t \div TicksPerSec>>
    ELSE <<t \div TicksPerSec, t % TicksPerSec>>

\* a handler that goes on without a video id
VideoNeverMissing(video_id) == FALSE

\* `if not video_id' (line 181)
VideoMissing(video_id) == Falsy(video_id)

\* a handler whose only except clause names RequestException
DiscordCaughtRequestOnly(hook) == hook \in {"2xx", "non2xx", "RequestException"}

\* what requests.post does: "2xx", "non2xx" (returned, status never looked at),
\* "RequestException", "Exception".  Both except clauses swallow (lines 217-220).
DiscordCaught(hook) == hook \in {"2xx", "non2xx", "RequestException", "Exception"}

\* what create_clip did before it answered: the rows the locator fetched
\* (<<>>: none fetched, else <<rows>>), the answers the search API had for the
\* channels, the channels queried, in order, the video found, the answer of
\* the videos API (<<>>: not asked, else <<detail>>), the start instant
\* resolved, the webhook posts made
NoTrace ==
    [fetched |-> <<>>, api |-> <<>>, queried |-> <<>>, video |-> None,
     detail |-> <<>>, start |-> <<>>, webhook |-> <<>>]

LocatorTrace(fetched, api, found) ==
    [fetched |-> fetched, api |-> api, queried |-> found.queried,
     video |-> found.video, detail |-> <<>>, start |-> <<>>, webhook |-> <<>>]

\* the response of create_clip when it ends without a row inserted
ClipFails(status, error, trace) ==
    /\ last' = [op |-> "clip", status |-> status, error |-> error,
                trace |-> trace, before |-> clips]
    /\ UNCHANGED <<env, channels, channelSeq, clips>>

\* the part of create_clip after both look-ups succeeded (lines 188-246)
compose_and_save(in, user, name, t) ==
    \E now_utc \in in.nows, db \in {"ok", "error"},
       hook \in (IF Falsy(DISCORD_WEBHOOK_URL) THEN {None} ELSE in.hooks) :
        LET video_id == t.video
            seconds == seconds_since_start(now_utc, t.start[1])
            clip_url == ClipUrl(video_id, seconds)
            title == IF name # <<>> THEN name ELSE ClipBy \o user
            posts == IF Falsy(DISCORD_WEBHOOK_URL) THEN <<>>
                     ELSE <<[user |-> user, name |-> name, clip_url |-> clip_url,
                             outcome |-> hook]>>
            trace == [t EXCEPT !.webhook = posts]
            row == [id |-> Len(clips) + 1, title |-> title, user |-> user,
                    clip_url |-> clip_url, thumbnail_url |-> ThumbnailUrl(video_id),
                    video_id |-> video_id, timestamp |-> IsoFormat(now_utc)]
        IN  IF hook # None /\ ~DiscordCaught(hook)
            THEN ClipFails(500, "exception", trace)
            ELSE IF db = "error"
            THEN ClipFails(500, "db", trace)
            ELSE /\ Len(clips) < in.cap
                 /\ clips' = Append(clips, row)
                 /\ last' = [op |-> "clip", status |-> 200, error |-> None,
                             trace |-> trace, before |-> clips,
                             now |-> now_utc, clip_url |-> clip_url,
                             title |-> title, user |-> user]
                 /\ UNCHANGED <<env, channels, channelSeq>>

\* GET /clip?user=&name=.  `in' holds the sets the inputs are drawn from.
create_clip(in) ==
    \E userArg \in in.users, nameArg \in in.names :
        LET user == ArgGet(userArg, Someone)
            name == Strip(ArgGet(nameArg, <<>>))
        IN  IF Falsy(YOUTUBE_API_KEY)
            THEN ClipFails(500, "yt_key_not_set", NoTrace)
            ELSE \E select \in {"ok", "error"} :
                 IF select = "error"
                 THEN ClipFails(404, "no_live",
                        LocatorTrace(<<>>, <<>>, get_active_live_video_id(<<>>, <<>>)))
                 ELSE \E api \in [ChannelIdsOf(channels) -> in.searches] :
                      LET rows == [i \in 1..Len(channels) |-> channels[i].channel_id]
                          found == get_active_live_video_id(<<rows>>, api)
                          located == LocatorTrace(<<rows>>, api, found)
                      IN  IF VideoMissing(found.video)
                          THEN ClipFails(404, "no_live", located)
                          ELSE \E detail \in in.details :
                               LET start == get_stream_start_time(found.video, detail)
                                   t == [located EXCEPT !.detail = <<detail>>,
                                                        !.start = start]
                               IN  IF start = <<>>
                                   THEN ClipFails(500, "no_start", t)
                                   ELSE compose_and_save(in, user, name, t)

\* what the videos request may do
Details(starts) ==
    { [kind |-> k, t |-> 0] : k \in {"RequestException", "Exception", "no_items", "no_start"} }
    \cup { [kind |-> "ok", t |-> s] : s \in starts }

Hooks == {"2xx", "non2xx", "RequestException", "Exception"}

\* the locator over every registry the admin API can build; the rest of the
\* pipeline at one instant with a webhook that answers
LocatorInputs ==
    [users |-> {<<>>}, names |-> {<<>>},
     searches |-> {"RequestException", "empty", "V1", "V2"},
     details |-> { d \in Details({0}) : d.kind \in {"ok", "no_start"} },
     nows |-> {ClipLookback * TicksPerSec + MaxTick},
     hooks |-> {"2xx"}, cap |-> 1]

LocatorNext ==
    \/ InitDb
    \/ create_clip(LocatorInputs)
    \/ add_channel_api({"s1"}, Bodies({"UCb", "UCc"}, {<<>>}), TRUE)
    \/ remove_channel_api({"s1"})

\* deployments whose admin key and webhook are set
InitLocator == Init /\ ADMIN_API_KEY = "s1" /\ DISCORD_WEBHOOK_URL = "url"

SpecLocator == InitLocator /\ [][LocatorNext]_vars

\* the whole pipeline over the registries of at most two channels
PipelineInputs ==
    [users |-> {<<>>}, names |-> {<<>>},
     searches |-> {"RequestException", "Exception", "empty", "V1"},
     details |-> Details({0}), nows |-> {ClipLookback * TicksPerSec + MaxTick},
     hooks |-> Hooks, cap |-> MaxClips]

PipelineNext ==
    \/ InitDb
    \/ create_clip(PipelineInputs)
    \/ add_channel_api({"s1"}, Bodies({"UCb"}, {<<>>}), TRUE)
    \/ remove_channel_api({"s1"})

\* deployments whose admin key is set
InitPipeline == Init /\ ADMIN_API_KEY = "s1"

SpecPipeline == InitPipeline /\ [][PipelineNext]_vars

-----------------------------------------------------------------------------
(* GET /api/clips *)

\* request.args.get('limit', 12, type=int)
DefaultLimit == 12

\* request.args.get('page', 1, type=int)
DefaultPage == 1

\* ASCII lower case, as LIKE folds it
Lower(c) ==
    CASE c = "A" -> "a"
      [] c = "B" -> "b"
      [] c = "C" -> "c"
      [] c = "Y" -> "y"
      [] OTHER -> c

\* SQLite's  t LIKE p : % matches any run of characters, _ any one character,
\* letters match without regard to case
RECURSIVE Like(_, _)
Like(p, t) ==
    IF p = <<>> THEN t = <<>>
    ELSE IF p[1] = "%" THEN Like(Tail(p), t) \/ (t # <<>> /\ Like(p, Tail(t)))
    ELSE /\ t # <<>>
         /\ (p[1] = "_" \/ Lower(p[1]) = Lower(t[1]))
         /\ Like(Tail(p), Tail(t))

\* WHERE (title LIKE ? OR user LIKE ?) with both parameters f"%{search_query}%"
Matches(row, search_query) ==
    search_query # <<>> =>
        LET pattern == <<"%">> \o search_query \o <<"%">>
        IN  Like(pattern, row.title) \/ Like(pattern, row.user)

\* the positions of the rows of the clips table the WHERE clause keeps
MatchingRows(search_query) ==
    { i \in 1..Len(clips) : Matches(clips[i], search_query) }

\* ORDER BY timestamp DESC, on the TEXT column: no row before one whose
\* timestamp text is greater; rows with equal text in any order
OrderedByTimestampDesc(rows) ==
    \A i \in 1..(Len(rows) - 1) : ~SeqLess(rows[i].timestamp, rows[i + 1].timestamp)

\* LIMIT ? OFFSET ? : a negative LIMIT is no limit, a negative OFFSET is 0
LimitOffset(rows, limit, offset) ==
    LET from == IF offset < 0 THEN 0 ELSE offset
        upto == IF limit < 0 \/ from + limit > Len(rows) THEN Len(rows) ELSE from + limit
    IN  SubSeq(rows, from + 1, upto)

\* Python's a // b for b # 0: the floor of the quotient
PyFloorDiv(a, b) == IF b > 0 THEN a \div b ELSE (-a) \div (-b)

\* max(1, (total_clips + limit - 1) // limit), limit # 0
total_pages(total_clips, limit) ==
    LET pages == PyFloorDiv(total_clips + limit - 1, limit)
    IN  IF pages < 1 THEN 1 ELSE pages

\* the rows at the positions of set S, as a sequence in table order
RECURSIVE RowsAt(_, _)
RowsAt(S, n) ==
    IF n = 0 THEN <<>>
    ELSE IF n \in S THEN Append(RowsAt(S, n - 1), clips[n])
    ELSE RowsAt(S, n - 1)

\* lines 283-307 of get_clips_api, over the rows the WHERE clause keeps
list_page(page, limit, search_query, matching) ==
    LET offset == (page - 1) * limit
        total_clips == Len(matching)
        request == [page |-> page, limit |-> limit, search |-> search_query]
    IN  \E ordered \in { Permuted(matching, p) : p \in Perms(total_clips) } :
            /\ OrderedByTimestampDesc(ordered)
            /\ IF limit = 0
               THEN \* ZeroDivisionError at line 297: unhandled
                    last' = [op |-> "list", status |-> 500, error |-> "exception",
                             request |-> request]
               ELSE last' = [op |-> "list", status |-> 200, error |-> None,
                             request |-> request,
                             clips |-> LimitOffset(ordered, limit, offset),
                             totalItems |-> total_clips,
                             totalPages |-> total_pages(total_clips, limit)]
            /\ UNCHANGED <<env, channels, channelSeq, clips>>

\* GET /api/clips?page=&limit=&search=
get_clips_api(in) ==
    \E pageArg \in in.pages, limitArg \in in.limits, searchArg \in in.searches :
        \E search_query \in {Strip(ArgGet(searchArg, <<>>))} :
            \E matching \in {RowsAt(MatchingRows(search_query), Len(clips))} :
                list_page(ArgGet(pageArg, DefaultPage), ArgGet(limitArg, DefaultLimit),
                          search_query, matching)

\* largest number of rows in the clips table when it is listed
MaxListed == 3

\* clips by two users at two instants, one of them on a whole second
ListedClipInputs ==
    [users |-> {<<>>, <<<<"A", "b">>>>}, names |-> {<<>>}, searches |-> {"V1"},
     details |-> { d \in Details({0}) : d.kind = "ok" },
     nows |-> {ClipLookback * TicksPerSec, ClipLookback * TicksPerSec + 1},
     hooks |-> {"2xx"}, cap |-> MaxListed]

ListInputs ==
    [pages |-> {<<>>, <<0>>, <<2>>},
     limits |-> {<<>>, <<-1>>, <<0>>, <<1>>, <<2>>},
     searches |-> {<<>>, <<<<" ", "a">>>>, <<<<"Y">>>>}]

ListNext ==
    \/ create_clip(ListedClipInputs)
    \/ get_clips_api(ListInputs)

\* a deployment without webhook and without admin key
InitList == Init /\ DISCORD_WEBHOOK_URL = None /\ ADMIN_API_KEY = None

SpecList == InitList /\ [][ListNext]_vars

\* the composer over instants around the stream start, and over the instant
\* 100 seconds after it, for the one seeded channel
ComposeInputs ==
    [users |-> {<<>>}, names |-> {<<>>}, searches |-> {"V1"},
     details |-> { d \in Details(0..MaxTick) : d.kind \in {"ok", "no_start"} },
     nows |-> {ClipLookback * TicksPerSec, ClipLookback * TicksPerSec + MaxTick,
               100 * TicksPerSec},
     hooks |-> {"2xx"}, cap |-> MaxClips]

ComposeNext == create_clip(ComposeInputs)

\* deployments without admin key
InitCompose == Init /\ ADMIN_API_KEY = None

SpecCompose == InitCompose /\ [][ComposeNext]_vars

AdminNext ==
    \/ InitDb
    \/ list_channels_api(Headers)
    \/ add_channel_api(Headers, Bodies(ChannelIds \cup {None, "", NonString}, ChannelNames),
                       FALSE)
    \/ remove_channel_api(Headers)

\* deployments without YouTube key and webhook
InitAdmin == Init /\ YOUTUBE_API_KEY = None /\ DISCORD_WEBHOOK_URL = None

SpecAdmin == InitAdmin /\ [][AdminNext]_vars

-----------------------------------------------------------------------------
(* Properties of the Live-Stream Locator *)

\* the latest request was a /clip whose locator fetched the registry
Located == last.op = "clip" /\ last.trace.fetched # <<>>

\* the rows the locator fetched, and what the search API answers for row i
FetchedRows == last.trace.fetched[1]
Answer(i) == last.trace.api[FetchedRows[i]]
ReportsLive(i) == ~SearchRaises(Answer(i)) /\ Answer(i) # "empty"

\* row j is the first that reports a live item
FirstLive(j) == ReportsLive(j) /\ \A k \in 1..(j - 1) : ~ReportsLive(k)

\* C1: a failed search for one channel counts as "not live" and the scan goes
\* on: when X's query fails and a later Y is the first channel reporting a live
\* item, Y is queried and the locator returns Y's video id.
C1_FailureDoesNotAbortScan ==
    Located =>
        \A i, j \in 1..Len(FetchedRows) :
            (i < j /\ SearchRaises(Answer(i)) /\ FirstLive(j)) =>
                /\ last.trace.video = Answer(j)
                /\ \E q \in 1..Len(last.trace.queried) :
                        last.trace.queried[q] = FetchedRows[j]

\* C2: the channels are queried one after the other in the fetched order, each
\* at most once; a queried channel that reports a live item ends the scan, its
\* video id is the result and no later channel is queried; when the channels
\* before the first live one all report nothing, that one's video is the result.
C2_ScanInOrderStopsAtFirstLive ==
    Located =>
        /\ Len(last.trace.queried) <= Len(FetchedRows)
        /\ \A q \in 1..Len(last.trace.queried) : last.trace.queried[q] = FetchedRows[q]
        /\ \A q, r \in 1..Len(last.trace.queried) :
                q # r => last.trace.queried[q] # last.trace.queried[r]
        /\ \A q \in 1..Len(last.trace.queried) :
                ReportsLive(q) =>
                    /\ q = Len(last.trace.queried)
                    /\ last.trace.video = Answer(q)
        /\ \A j \in 1..Len(FetchedRows) :
                (FirstLive(j) /\ \A k \in 1..(j - 1) : Answer(k) = "empty") =>
                    /\ last.trace.video = Answer(j)
                    /\ Len(last.trace.queried) = j

\* [A not live, B live with V1, C live with V2]: the result is V1, C is not queried
C2_Witness ==
    /\ Located
    /\ Len(FetchedRows) = 3
    /\ Answer(1) = "empty" /\ Answer(2) = "V1" /\ Answer(3) = "V2"
    /\ last.trace.video = "V1"
    /\ Len(last.trace.queried) = 2

\* C3: with an empty registry, or every channel reporting nothing, or every
\* query failing, the locator returns None and /clip answers 404, posts
\* nothing to the webhook and inserts no row.
C3_NoLiveIs404 ==
    (/\ Located
     /\ \/ FetchedRows = <<>>
        \/ \A i \in 1..Len(FetchedRows) : Answer(i) = "empty"
        \/ \A i \in 1..Len(FetchedRows) : SearchRaises(Answer(i)))
    => /\ last.trace.video = None
       /\ last.status = 404
       /\ last.trace.webhook = <<>>
       /\ clips = last.before

\* two channels, both queried, neither live, over a table that holds a clip
C3_Witness ==
    /\ Located
    /\ Len(FetchedRows) = 2
    /\ \A i \in 1..2 : Answer(i) = "empty"
    /\ Len(last.trace.queried) = 2
    /\ last.status = 404
    /\ Len(clips) = 1

-----------------------------------------------------------------------------
(* Properties of the /clip pipeline *)

\* the latest request was a /clip that found a live video and asked for its start
AskedStart == last.op = "clip" /\ last.trace.detail # <<>>

\* C5: once the video is found and its start resolved, a store write that
\* succeeds appends exactly one row and the answer is 200, whatever the webhook
\* did and whether or not one is configured.
C5_ClipSavedWhateverWebhook ==
    (AskedStart /\ last.trace.start # <<>> /\ last.error # "db") =>
        /\ last.status = 200
        /\ Len(clips) = Len(last.before) + 1
        /\ SubSeq(clips, 1, Len(last.before)) = last.before
        /\ clips[Len(clips)].clip_url = last.clip_url
        /\ clips[Len(clips)].video_id = last.trace.video
        /\ Len(last.trace.webhook) = IF Falsy(DISCORD_WEBHOOK_URL) THEN 0 ELSE 1

\* the webhook call raised something that is no RequestException; 200, one more row
C5_Witness ==
    /\ AskedStart
    /\ last.status = 200
    /\ Len(last.trace.webhook) = 1
    /\ last.trace.webhook[1].outcome = "Exception"
    /\ Len(clips) = 2
    /\ Len(last.before) = 1

\* C6: a live video whose start cannot be resolved: the resolver returns None,
\* /clip answers 500, posts nothing to the webhook and inserts no row.
C6_NoStartIs500 ==
    (AskedStart /\ last.trace.detail[1].kind # "ok") =>
        /\ last.trace.start = <<>>
        /\ last.status = 500
        /\ last.trace.webhook = <<>>
        /\ clips = last.before

\* the videos API answered without actualStartTime, webhook configured
C6_Witness ==
    /\ AskedStart
    /\ last.trace.detail[1].kind = "no_start"
    /\ last.trace.video = "V1"
    /\ ~Falsy(DISCORD_WEBHOOK_URL)
    /\ last.status = 500

-----------------------------------------------------------------------------
(* Properties of the clip offset *)

\* the latest request was a /clip that composed and stored a clip
Composed == last.op = "clip" /\ last.status = 200

\* candidate - streamStart of the latest clip, in ticks
CandidateAhead == (last.now - ClipLookback * TicksPerSec) - last.trace.start[1]

Max(a, b) == IF a >= b THEN a ELSE b

\* C4: the offset is max(0, floor(candidate - streamStart)) in whole seconds,
\* candidate = now - 35 s: the floor itself when streamStart <= candidate, 0
\* when candidate < streamStart, never negative; the clip URL, as answered and
\* as stored, carries that offset and the video id; a stream that started 100
\* seconds before now gives 65.
C4_OffsetIsClampedFloor ==
    Composed =>
        /\ last.clip_url.t = Max(0, CandidateAhead \div TicksPerSec)
        /\ CandidateAhead >= 0 => last.clip_url.t = CandidateAhead \div TicksPerSec
        /\ CandidateAhead < 0 => last.clip_url.t = 0
        /\ last.clip_url.t >= 0
        /\ last.clip_url.v = last.trace.video
        /\ clips[Len(clips)].clip_url = last.clip_url
        /\ last.now - last.trace.start[1] = 100 * TicksPerSec => last.clip_url.t = 65

\* a stream that started a whole second or more after the candidate instant
C4_Witness ==
    /\ Composed
    /\ CandidateAhead <= -TicksPerSec
    /\ last.clip_url.t = 0

\* a stream that started a whole number of seconds and a fraction before the candidate
C4_WitnessFraction ==
    /\ Composed
    /\ CandidateAhead > TicksPerSec
    /\ CandidateAhead % TicksPerSec # 0
    /\ last.clip_url.t = CandidateAhead \div TicksPerSec

\* the stream started 100 seconds before now
C4_WitnessExample ==
    /\ Composed
    /\ last.now - last.trace.start[1] = 100 * TicksPerSec
    /\ last.clip_url.t = 65

-----------------------------------------------------------------------------
(* Properties of the admin API *)

AdminOps == {"list_channels", "add_channel", "remove_channel"}

\* the latest request was an admin create whose INSERT ran
InsertRan ==
    last.op = "add_channel" /\ last.db /\ last.error # "db"

\* C8: an admin create whose channel_id is already in the table answers 409
\* and leaves the table as it was; no two rows of the table ever share a
\* channel_id, whatever seeding, creates and deletes came before.
C8_DuplicateIsConflict ==
    /\ \A i, j \in 1..Len(channels) :
            i # j => channels[i].channel_id # channels[j].channel_id
    /\ (InsertRan /\ last.channel_id \in ChannelIdsOf(last.before)) =>
            /\ last.status = 409
            /\ channels = last.before

\* a create for a channel_id that a table of two rows already holds
C8_Witness ==
    /\ InsertRan
    /\ Len(last.before) = 2
    /\ last.channel_id = last.before[2].channel_id
    /\ last.status = 409

\* C9: an admin request whose x-api-key is not the configured key is answered
\* 403 without the handler touching the database; with no key configured
\* every admin request is answered 500 "key not set", whatever the header;
\* in both cases the channels table is left as it was.
C9_AdminNeedsSecret ==
    last.op \in AdminOps =>
        /\ Falsy(ADMIN_API_KEY) =>
                /\ last.status = 500
                /\ last.error = "admin_key_not_set"
                /\ ~last.db
                /\ channels = last.before
        /\ (~Falsy(ADMIN_API_KEY) /\ last.api_key # ADMIN_API_KEY) =>
                /\ last.status = 403
                /\ last.error = "unauthorized"
                /\ ~last.db
                /\ channels = last.before
        /\ last.db => last.api_key = ADMIN_API_KEY

\* no key configured and a create that presents no header at all
C9_Witness ==
    /\ last.op = "add_channel"
    /\ ADMIN_API_KEY = None
    /\ last.api_key = None
    /\ last.status = 500

\* a key configured and a delete that presents another one
C9_WitnessForbidden ==
    /\ last.op = "remove_channel"
    /\ ADMIN_API_KEY = "s1"
    /\ last.api_key = "bad"
    /\ last.status = 403

-----------------------------------------------------------------------------
(* Properties of the clip listing *)

Listed == last.op = "list"

\* the least integer not below a / b, b # 0
CeilDiv(a, b) ==
    LET m == (IF a < 0 THEN -a ELSE a) + 1
    IN  CHOOSE q \in (-m)..m :
            IF b > 0 THEN q * b >= a /\ (q - 1) * b < a
            ELSE q * b <= a /\ (q - 1) * b > a

\* C7: for every page size and every table the listing answers (never fails)
\* with totalItems = the number of rows the filter keeps and
\* totalPages = max(1, ceil(totalItems / pageSize)); page 1 of an empty table
\* is an empty list with totalItems 0 and totalPages 1.
C7_TotalsForEveryPageSize ==
    Listed =>
        /\ last.status = 200
        /\ last.totalItems = Cardinality(MatchingRows(last.request.search))
        /\ last.totalPages = Max(1, CeilDiv(last.totalItems, last.request.limit))
        /\ (clips = <<>> /\ last.request.page = 1) =>
                /\ last.clips = <<>>
                /\ last.totalItems = 0
                /\ last.totalPages = 1

\* row a comes before row b: newer first, equal timestamps by id (ascending
\* when up, descending otherwise)
ComesBefore(a, b, up) ==
    \/ SeqLess(b.timestamp, a.timestamp)
    \/ a.timestamp = b.timestamp /\ (IF up THEN a.id < b.id ELSE a.id > b.id)

\* the rows the filter keeps, in the one order that breaks ties by id
StableOrder(search_query, up) ==
    LET matching == RowsAt(MatchingRows(search_query), Len(clips))
    IN  CHOOSE ordered \in { Permuted(matching, p) : p \in Perms(Len(matching)) } :
            \A i, j \in 1..Len(ordered) :
                i < j => ComesBefore(ordered[i], ordered[j], up)

\* positions (page-1)*limit+1 .. min(page*limit, Len(rows)) of rows
PageOf(rows, page, limit) ==
    SubSeq(rows, (page - 1) * limit + 1,
           IF page * limit < Len(rows) THEN page * limit ELSE Len(rows))

\* C10: every page is a slice of one stable newest-first order, in which rows
\* of equal timestamp follow their id order (read either way round): page p
\* holds positions (p-1)*pageSize+1 .. min(p*pageSize, totalItems).
C10_PagesSliceStableOrder ==
    (Listed /\ last.status = 200 /\ last.request.page >= 1 /\ last.request.limit >= 1) =>
        \E up \in BOOLEAN :
            last.clips = PageOf(StableOrder(last.request.search, up),
                                last.request.page, last.request.limit)

====
